---- MODULE Spec2Model ----
(***************************************************************************)
(* click-native-completions: the completion-script generator (the context  *)
(* tree iterator, the bash and zsh emitters) and the runtime of the        *)
(* generated bash script (parse_line and the candidate selection).         *)
(*                                                                         *)
(* Text is modelled as sequences of one-character strings, so that         *)
(* joining, word splitting, prefix tests and slugification are computed    *)
(* and not assumed.                                                        *)
(***************************************************************************)
EXTENDS Integers, Sequences, FiniteSets, TLC

VARIABLES
  cmd,          \* the click command tree: node id -> command record
  shell,        \* the dialect handed to generate_completion
  pc,           \* position in Completer.__init__ / _gen_completion
  error,        \* the exception that ended generation ("" when none)
  stack,        \* frames of the nested ContextTree.__iter__ generators
  cur,          \* the context the iterator yielded last (sequence of 0 or 1)
  yielded,      \* every context yielded so far, in order
  bash_out,     \* the table assignments of the bash script, in order
  zsh_out,      \* the functions of the zsh script, in order
  tables,       \* the five associative arrays of the sourced bash script
  rpc,          \* position in the bash completion function
  COMP_WORDS,   \* the words of the command line (bash index k is COMP_WORDS[k+1])
  COMP_CWORD,   \* bash index of the cursor word
  loc,          \* parse_line's locals: i, toskip, curopt, nomoreopts, curcmd
  COMPREPLY,    \* the candidates offered
  hist          \* what parse_line did: scanned indices, break, loop exit values

vars == <<cmd, shell, pc, error, stack, cur, yielded, bash_out, zsh_out, tables,
          rpc, COMP_WORDS, COMP_CWORD, loc, COMPREPLY, hist>>

genvars == <<cmd, shell, pc, error, stack, cur, yielded, bash_out, zsh_out>>

runvars == <<tables, rpc, COMP_WORDS, COMP_CWORD, loc, COMPREPLY, hist>>

(***************************************************************************)
(* Bounds                                                                  *)
(***************************************************************************)
\* at most this many commands of a tree are hidden
MaxHidden == 2

\* at most this many words on the completed command line
MaxWords == 5

(***************************************************************************)
(* Text                                                                    *)
(***************************************************************************)
StartsWith(s, p) == Len(p) <= Len(s) /\ SubSeq(s, 1, Len(p)) = p

RECURSIVE Join(_)
\* " ".join(ws)
Join(ws) ==
  IF ws = <<>> THEN <<>>
  ELSE IF Len(ws) = 1 THEN ws[1]
  ELSE ws[1] \o <<" ">> \o Join(Tail(ws))

RECURSIVE SplitFrom(_, _, _)
SplitFrom(s, k, word) ==
  IF k > Len(s) THEN (IF word = <<>> THEN <<>> ELSE <<word>>)
  ELSE IF s[k] = " "
       THEN (IF word = <<>> THEN <<>> ELSE <<word>>) \o SplitFrom(s, k + 1, <<>>)
       ELSE SplitFrom(s, k + 1, Append(word, s[k]))

\* the shell's word splitting of an unquoted expansion (for x in $value)
Split(s) == SplitFrom(s, 1, <<>>)

RECURSIVE Concat(_)
Concat(ss) == IF ss = <<>> THEN <<>> ELSE ss[1] \o Concat(Tail(ss))

Range(s) == {s[k] : k \in 1..Len(s)}

\* Completer._slugify
_slugify(s) == [k \in 1..Len(s) |-> IF s[k] \in {" ", "-"} THEN "_" ELSE s[k]]

(***************************************************************************)
(* The words of the modelled command trees and command lines               *)
(***************************************************************************)
w_tool == <<"t", "o", "o", "l">>
w_sub == <<"s", "u", "b">>
w_subset == <<"s", "u", "b", "s", "e", "t">>
w_su == <<"s", "u">>
w_grp == <<"g", "r", "p">>
w_real == <<"r", "e", "a", "l">>
w_adm == <<"a", "d", "m">>
w_deep == <<"d", "e", "e", "p">>
w_leaf == <<"l", "e", "a", "f">>
w_one == <<"o", "n", "e">>
w_x == <<"x">>
w_json == <<"j", "s", "o", "n">>
w_text == <<"t", "e", "x", "t">>
f_h == <<"-", "h">>
f_help == <<"-", "-", "h", "e", "l", "p">>
f_v == <<"-", "v">>
f_F == <<"-", "F">>
f_format == <<"-", "-", "f", "o", "r", "m", "a", "t">>
f_o == <<"-", "o">>
f_x == <<"-", "x">>
f_pair == <<"-", "-", "p", "a", "i", "r">>
f_secret == <<"-", "-", "s", "e", "c", "r", "e", "t">>
f_Fx == <<"-", "F", "x">>
dashdash == <<"-", "-">>

(***************************************************************************)
(* click parameters and commands                                           *)
(***************************************************************************)
Option(opts, secondary, is_flag, count, multiple, nargs, has_choices, choices, hidden) ==
  [ptype |-> "Option", opts |-> opts, secondary_opts |-> secondary,
   is_flag |-> is_flag, count |-> count, multiple |-> multiple, nargs |-> nargs,
   has_choices |-> has_choices, choices |-> choices, hidden |-> hidden,
   required |-> FALSE]

\* click.Argument has no flag, count or choice attributes of its own
Argument(nargs, required) ==
  [ptype |-> "Argument", opts |-> <<>>, secondary_opts |-> <<>>,
   is_flag |-> FALSE, count |-> FALSE, multiple |-> FALSE, nargs |-> nargs,
   has_choices |-> FALSE, choices |-> <<>>, hidden |-> FALSE,
   required |-> required]

o_help == Option(<<f_h, f_help>>, <<>>, TRUE, FALSE, FALSE, 1, FALSE, <<>>, FALSE)
o_verbose == Option(<<f_v>>, <<>>, FALSE, TRUE, FALSE, 1, FALSE, <<>>, FALSE)
o_format == Option(<<f_F, f_format>>, <<>>, FALSE, FALSE, FALSE, 1, TRUE, <<w_json, w_text>>, FALSE)
o_out == Option(<<f_o>>, <<>>, FALSE, FALSE, FALSE, 1, FALSE, <<>>, FALSE)
o_xh == Option(<<f_x>>, <<f_h>>, TRUE, FALSE, FALSE, 1, FALSE, <<>>, FALSE)
o_hcount == Option(<<f_h>>, <<>>, FALSE, TRUE, FALSE, 1, FALSE, <<>>, FALSE)
o_pair == Option(<<f_pair>>, <<>>, FALSE, FALSE, FALSE, 2, TRUE, <<w_json, w_text>>, FALSE)
o_secret == Option(<<f_secret>>, <<>>, TRUE, FALSE, FALSE, 1, FALSE, <<>>, TRUE)
a_name == Argument(1, TRUE)
a_rest == Argument(-1, FALSE)

Command(name, kind, hidden, commands, params) ==
  [name |-> name, kind |-> kind, hidden |-> hidden, commands |-> commands,
   params |-> params]

Nodes == 0..8

\* A command tree: H the hidden commands, alias whether group 1 is registered
\* under a name other than its own, named whether the root has a name, bare
\* whether leaf 3 declares no parameter at all.
Tree(H, alias, named, bare) ==
  [n \in Nodes |->
    CASE n = 0 -> Command(IF named THEN w_tool ELSE <<>>, "Group", 0 \in H,
                          <<<<w_grp, 1>>, <<w_sub, 2>>, <<w_subset, 3>>, <<w_adm, 4>>>>,
                          <<o_help, o_verbose, o_format>>)
      [] n = 1 -> Command(IF alias THEN w_real ELSE w_grp, "Group", 1 \in H,
                          <<<<w_deep, 5>>, <<w_one, 6>>>>, <<o_format, o_xh>>)
      [] n = 2 -> Command(w_sub, "Leaf", 2 \in H, <<>>,
                          <<o_format, o_out, o_secret, a_name>>)
      [] n = 3 -> Command(w_subset, "Leaf", 3 \in H, <<>>,
                          IF bare THEN <<>> ELSE <<a_name, a_rest>>)
      [] n = 4 -> Command(w_adm, "Group", 4 \in H, <<<<w_x, 7>>>>, <<o_secret>>)
      [] n = 5 -> Command(w_deep, "Group", 5 \in H, <<<<w_leaf, 8>>>>, <<o_hcount>>)
      [] n = 6 -> Command(w_one, "Leaf", 6 \in H, <<>>, <<o_pair>>)
      [] n = 7 -> Command(w_x, "Leaf", 7 \in H, <<>>, <<o_help>>)
      [] n = 8 -> Command(w_leaf, "Leaf", 8 \in H, <<>>, <<o_format>>)]

HiddenSets == {H \in SUBSET Nodes : Cardinality(H) <= MaxHidden}

Trees == {Tree(H, al, nm, br) : H \in HiddenSets, al \in BOOLEAN, nm \in BOOLEAN, br \in BOOLEAN}

(***************************************************************************)
(* _common.py: shared primitives                                           *)
(***************************************************************************)
is_repeatable(o) == o.count \/ o.multiple

compute_nargs(o) == IF o.is_flag \/ o.count THEN 0 ELSE o.nargs

opt_strs(o) == o.opts \o o.secondary_opts

slamopts(o) ==
  IF compute_nargs(o) # 1 THEN <<>>
  ELSE SelectSeq(opt_strs(o), LAMBDA x : Len(x) < 3)

(***************************************************************************)
(* _common.py: contexts and the context tree iterator                      *)
(***************************************************************************)
\* click.Context(command, info_name, parent) with its command_path: the
\* parent's command_path, a space, the info_name
Context(c, info_name, parent) ==
  [command |-> c, info_name |-> info_name,
   command_path |-> IF parent = <<>> THEN info_name
                    ELSE parent[1].command_path \o <<" ">> \o info_name]

\* ContextTree.__init__: name = info_name or cmd.name
ContextTree(c, info_name, parent_ctx) ==
  [cmd |-> c, name |-> IF info_name # <<>> THEN info_name ELSE cmd[c].name,
   parent_ctx |-> parent_ctx]

RECURSIVE WalkFromKeepingHidden(_, _, _, _)
\* the same loop without the check of subcmd.hidden
WalkFromKeepingHidden(items, k, current_ctx, acc) ==
  IF k > Len(items) THEN acc
  ELSE LET subcmdname == items[k][1]
           subcmd == items[k][2]
       IN IF cmd[subcmd].kind = "Group"
          THEN WalkFromKeepingHidden(items, k + 1, current_ctx,
                 [acc EXCEPT !.subtrees =
                    Append(@, ContextTree(subcmd, <<>>, <<current_ctx>>))])
          ELSE WalkFromKeepingHidden(items, k + 1, current_ctx,
                 [acc EXCEPT !.cmds =
                    Append(@, Context(subcmd, subcmdname, <<current_ctx>>))])

RECURSIVE WalkFrom(_, _, _, _)
\* the loop of ContextTree._walk over cmd.commands.items() from item k on
WalkFrom(items, k, current_ctx, acc) ==
  IF k > Len(items) THEN acc
  ELSE LET subcmdname == items[k][1]
           subcmd == items[k][2]
       IN IF cmd[subcmd].hidden THEN WalkFrom(items, k + 1, current_ctx, acc)
          ELSE IF cmd[subcmd].kind = "Group"
          THEN WalkFrom(items, k + 1, current_ctx,
                 [acc EXCEPT !.subtrees =
                    Append(@, ContextTree(subcmd, <<>>, <<current_ctx>>))])
          ELSE WalkFrom(items, k + 1, current_ctx,
                 [acc EXCEPT !.cmds =
                    Append(@, Context(subcmd, subcmdname, <<current_ctx>>))])

\* ContextTree._walk
_walk(t) ==
  LET current_ctx == Context(t.cmd, t.name, t.parent_ctx)
  IN WalkFrom(cmd[t.cmd].commands, 1, current_ctx,
              [ctx |-> current_ctx, cmds |-> <<>>, subtrees |-> <<>>])

\* a suspended ContextTree.__iter__ generator: before its first next() it
\* holds only its tree; afterwards what _walk returned and is not yet yielded
Frame(t) == [tree |-> t, walked |-> FALSE, cmds |-> <<>>, subtrees |-> <<>>]

RECURSIVE Resume(_)
\* ContextTree.__iter__: run the innermost generator to its next yield;
\* [stack, out]: out is the context yielded, or <<>> at StopIteration
Resume(st) ==
  IF st = <<>> THEN [stack |-> <<>>, out |-> <<>>]
  ELSE LET top == st[Len(st)]
           below == SubSeq(st, 1, Len(st) - 1)
       IN IF ~top.walked
          THEN LET w == _walk(top.tree)
               IN [stack |-> Append(below, [top EXCEPT !.walked = TRUE,
                                                       !.cmds = w.cmds,
                                                       !.subtrees = w.subtrees]),
                   out |-> <<w.ctx>>]
          ELSE IF top.cmds # <<>>
          THEN [stack |-> Append(below, [top EXCEPT !.cmds = Tail(@)]),
                out |-> <<Head(top.cmds)>>]
          ELSE IF top.subtrees # <<>>
          THEN Resume(Append(Append(below, [top EXCEPT !.subtrees = Tail(@)]),
                             Frame(Head(top.subtrees))))
          ELSE Resume(below)

(***************************************************************************)
(* __init__.py and Completer.__init__                                      *)
(***************************************************************************)
\* _get_completer_cls: anything but "zsh" is rendered by the BashCompleter
_get_completer_cls(sh) == IF sh = "zsh" THEN "zsh" ELSE "bash"

\* Completer.__init__: self.name = command_name or command.name
root_name == cmd[0].name

root_slug == _slugify(root_name)

\* self.slug = "__{root_slug}__comp"
slug == <<"_", "_">> \o root_slug \o <<"_", "_", "c", "o", "m", "p">>

VisibleOptions(ctx) ==
  SelectSeq(cmd[ctx.command].params, LAMBDA p : p.ptype = "Option" /\ ~p.hidden)

\* dict.keys() of a group's commands, in declaration order
CommandNames(c) == [k \in 1..Len(cmd[c].commands) |-> cmd[c].commands[k][1]]

(***************************************************************************)
(* bash_impl.py: the table assignments                                     *)
(***************************************************************************)
Digits == <<"0", "1", "2", "3", "4", "5", "6", "7", "8", "9">>

\* the decimal text of a small natural number, as the f-string formats it
Str(n) == <<Digits[n + 1]>>

Line(table, key, value) == [table |-> table, key |-> key, value |-> value]

OptKey(ctx, s) == ctx.command_path \o <<" ">> \o s

NargsLines(ctx, o) ==
  [k \in 1..Len(opt_strs(o)) |->
     Line("opt_nargs", OptKey(ctx, opt_strs(o)[k]), Str(compute_nargs(o)))]

ChoiceLines(ctx, o) ==
  IF o.has_choices
  THEN [k \in 1..Len(opt_strs(o)) |->
          Line("opt_choices", OptKey(ctx, opt_strs(o)[k]), Join(o.choices))]
  ELSE <<>>

\* BashCompleter._common_info
_common_info(ctx) ==
  LET options == VisibleOptions(ctx)
      joined_opts == Join(Concat([k \in 1..Len(options) |-> opt_strs(options[k])]))
      joined_slamopts == Join(Concat([k \in 1..Len(options) |-> slamopts(options[k])]))
  IN <<Line("opts", ctx.command_path, joined_opts),
       Line("slamopts", ctx.command_path, joined_slamopts)>>
     \o Concat([k \in 1..Len(options) |-> NargsLines(ctx, options[k])])
     \o Concat([k \in 1..Len(options) |-> ChoiceLines(ctx, options[k])])

\* BashCompleter.cmd_completer
bash_cmd_completer(ctx) ==
  <<Line("subcmds", ctx.command_path, <<>>)>> \o _common_info(ctx)

\* BashCompleter.group_completer
bash_group_completer(ctx) ==
  <<Line("subcmds", ctx.command_path, Join(CommandNames(ctx.command)))>>
  \o _common_info(ctx)

(***************************************************************************)
(* zsh_impl.py: the argument specs and functions                           *)
(***************************************************************************)
DEFAULT_EAGER_EXIT_OPTS == {f_h, f_help}

ZSpec(kind, excludes, flag, argspec) ==
  [kind |-> kind, excludes |-> excludes, flag |-> flag, argspec |-> argspec]

\* the flag spellings as emitted: "+" after a two-character flag and "=" after
\* a long flag when the option takes one argument, "*" before a repeatable one
DecoratedFlags(o) ==
  LET nargs == compute_nargs(o)
      raw == opt_strs(o)
      plus == [k \in 1..Len(raw) |->
                 IF Len(raw[k]) = 2 /\ nargs = 1 THEN raw[k] \o <<"+">> ELSE raw[k]]
      eq == [k \in 1..Len(plus) |->
               IF StartsWith(plus[k], dashdash) /\ nargs = 1
               THEN plus[k] \o <<"=">> ELSE plus[k]]
  IN IF is_repeatable(o) THEN [k \in 1..Len(eq) |-> <<"*">> \o eq[k]] ELSE eq

\* the exclusion rule with the eager-exit marker added to every option
ExcludesAlwaysEager(o) ==
  LET e1 == IF is_repeatable(o) THEN <<>> ELSE Join(opt_strs(o))
      e2 == e1 \o (IF e1 # <<>> THEN <<" ">> ELSE <<>>) \o <<"-", " ", ":">>
  IN <<"(">> \o e2 \o <<")">>

\* the exclusion rule of ZshCompleter._option_descs
Excludes(o) ==
  LET flags == DecoratedFlags(o)
      e1 == IF is_repeatable(o) THEN <<>> ELSE Join(opt_strs(o))
      e2 == IF flags[1] \in DEFAULT_EAGER_EXIT_OPTS
            THEN e1 \o (IF e1 # <<>> THEN <<" ">> ELSE <<>>) \o <<"-", " ", ":">>
            ELSE e1
  IN IF e2 # <<>> THEN <<"(">> \o e2 \o <<")">> ELSE <<>>

ArgSpec(o) ==
  IF o.has_choices THEN <<":", " ", ":", "(">> \o Join(o.choices) \o <<")">>
  ELSE IF compute_nargs(o) > 0 THEN <<":", " ", ":", "(", " ", ")">>
  ELSE <<>>

\* ZshCompleter._option_descs
_option_descs(o) ==
  LET flags == DecoratedFlags(o)
  IN [k \in 1..Len(flags) |-> ZSpec("option", Excludes(o), flags[k], ArgSpec(o))]

\* ZshCompleter._all_option_descs
_all_option_descs(ctx) ==
  LET options == VisibleOptions(ctx)
  IN Concat([k \in 1..Len(options) |-> _option_descs(options[k])])

\* ZshCompleter._positional_arg_desc
_positional_arg_desc(arg_position, arg) ==
  LET n == IF compute_nargs(arg) = -1 THEN <<"*">> ELSE Str(arg_position + 1)
      opt_colon == IF arg.required THEN <<>> ELSE <<":">>
  IN ZSpec("positional", <<>>, n \o opt_colon, <<":">>)

\* ZshCompleter._all_positional_arg_descs
_all_positional_arg_descs(ctx) ==
  LET args == SelectSeq(cmd[ctx.command].params, LAMBDA p : p.ptype = "Argument")
  IN [k \in 1..Len(args) |-> _positional_arg_desc(k - 1, args[k])]

_cmdslug(ctx) == _slugify(ctx.command_path)

_cmd_completer_name(ctx) == slug \o <<"_", "c", "m", "d", "_">> \o _cmdslug(ctx)

_subcmd_describer_name(ctx) ==
  slug \o <<"_", "d", "e", "s", "c", "r", "i", "b", "e", "_">> \o _cmdslug(ctx)

_is_root_ctx(ctx) == " " \notin Range(ctx.command_path)

ZFunc(kind, name, path, root_locals, subcmds, specs, branches) ==
  [kind |-> kind, name |-> name, path |-> path, root_locals |-> root_locals,
   subcmds |-> subcmds, specs |-> specs, branches |-> branches]

\* ZshCompleter.cmd_completer; all_descs[-1] raises IndexError on an empty list
zsh_cmd_completer_raises(ctx) ==
  _all_option_descs(ctx) \o _all_positional_arg_descs(ctx) = <<>>

zsh_cmd_completer(ctx) ==
  <<ZFunc("cmd", _cmd_completer_name(ctx), ctx.command_path, FALSE, <<>>,
          _all_option_descs(ctx) \o _all_positional_arg_descs(ctx), <<>>)>>

\* the two specs that close a group's _arguments call
SubcmdSpec(ctx) == ZSpec("subcmds", <<"(", "-", ")">>, <<>>, _subcmd_describer_name(ctx))

RestSpec == ZSpec("rest", <<"(", "-", ")">>, <<"*">>, <<"-", ">", "a", "r", "g", "s">>)

\* ZshCompleter.group_completer
zsh_group_completer(ctx) ==
  LET subcommand_names == CommandNames(ctx.command)
  IN <<ZFunc("describe", _subcmd_describer_name(ctx), ctx.command_path, FALSE,
             subcommand_names, <<>>, <<>>),
       ZFunc("cmd", _cmd_completer_name(ctx), ctx.command_path, _is_root_ctx(ctx),
             <<>>,
             _all_option_descs(ctx) \o <<SubcmdSpec(ctx), RestSpec>>,
             [k \in 1..Len(subcommand_names) |->
                [pattern |-> subcommand_names[k],
                 funcname |-> _cmd_completer_name(ctx) \o <<"_">>
                              \o _slugify(subcommand_names[k])]])>>

(***************************************************************************)
(* Completer._gen_completion, one step per operation                       *)
(***************************************************************************)
NoLoc == [i |-> 0, toskip |-> 0, curopt |-> <<>>, nomoreopts |-> 0, curcmd |-> <<>>]

NoHist == [scanned |-> {}, broke |-> FALSE, loopcmd |-> <<>>, skipped |-> {},
           recorded |-> {}, dashes |-> {}]

NoTables == [subcmds |-> <<>>, opts |-> <<>>, slamopts |-> <<>>,
             opt_nargs |-> <<>>, opt_choices |-> <<>>]

InitWith(trees) ==
  /\ cmd \in trees
  /\ shell \in {"bash", "zsh"}
  /\ pc = "init"
  /\ error = ""
  /\ stack = <<>>
  /\ cur = <<>>
  /\ yielded = <<>>
  /\ bash_out = <<>>
  /\ zsh_out = <<>>
  /\ tables = NoTables
  /\ rpc = "unsourced"
  /\ COMP_WORDS = <<>>
  /\ COMP_CWORD = 0
  /\ loc = NoLoc
  /\ COMPREPLY = <<>>
  /\ hist = NoHist

Init == InitWith(Trees)

\* Completer.__init__: a root without a name raises ValueError
Construct ==
  /\ pc = "init"
  /\ IF root_name = <<>>
     THEN pc' = "error" /\ error' = "ValueError"
     ELSE pc' = "prologue" /\ error' = error
  /\ UNCHANGED <<cmd, shell, stack, cur, yielded, bash_out, zsh_out>>
  /\ UNCHANGED runvars

\* _gen_completion: yield the prologue and start iterating the ContextTree
Prologue ==
  /\ pc = "prologue"
  /\ stack' = <<Frame(ContextTree(0, root_name, <<>>))>>
  /\ pc' = "next"
  /\ UNCHANGED <<cmd, shell, error, cur, yielded, bash_out, zsh_out>>
  /\ UNCHANGED runvars

\* the for loop asks the iterator for the next context
IterNext ==
  /\ pc = "next"
  /\ LET r == Resume(stack)
     IN /\ stack' = r.stack
        /\ cur' = r.out
        /\ yielded' = yielded \o r.out
        /\ pc' = IF r.out = <<>> THEN "epilogue" ELSE "dispatch"
  /\ UNCHANGED <<cmd, shell, error, bash_out, zsh_out>>
  /\ UNCHANGED runvars

\* the loop body for a click.Group
GroupCompleter ==
  /\ pc = "dispatch"
  /\ cmd[cur[1].command].kind = "Group"
  /\ IF _get_completer_cls(shell) = "bash"
     THEN bash_out' = bash_out \o bash_group_completer(cur[1]) /\ zsh_out' = zsh_out
     ELSE zsh_out' = zsh_out \o zsh_group_completer(cur[1]) /\ bash_out' = bash_out
  /\ pc' = "next"
  /\ UNCHANGED <<cmd, shell, error, stack, cur, yielded>>
  /\ UNCHANGED runvars

\* the loop body for any other command
CmdCompleter ==
  /\ pc = "dispatch"
  /\ cmd[cur[1].command].kind # "Group"
  /\ IF _get_completer_cls(shell) = "bash"
     THEN /\ bash_out' = bash_out \o bash_cmd_completer(cur[1])
          /\ UNCHANGED <<zsh_out, error>>
          /\ pc' = "next"
     ELSE IF zsh_cmd_completer_raises(cur[1])
     THEN /\ error' = "IndexError"
          /\ pc' = "error"
          /\ UNCHANGED <<bash_out, zsh_out>>
     ELSE /\ zsh_out' = zsh_out \o zsh_cmd_completer(cur[1])
          /\ UNCHANGED <<bash_out, error>>
          /\ pc' = "next"
  /\ UNCHANGED <<cmd, shell, stack, cur, yielded>>
  /\ UNCHANGED runvars

\* yield the epilogue; gen_completion joins the lines and returns the script
Epilogue ==
  /\ pc = "epilogue"
  /\ pc' = "done"
  /\ UNCHANGED <<cmd, shell, error, stack, cur, yielded, bash_out, zsh_out>>
  /\ UNCHANGED runvars

NextGen == Construct \/ Prologue \/ IterNext \/ GroupCompleter \/ CmdCompleter \/ Epilogue

Spec == Init /\ [][NextGen]_vars

(***************************************************************************)
(* Properties of the generator                                             *)
(***************************************************************************)
VisibleItems(c) == SelectSeq(cmd[c].commands, LAMBDA it : ~cmd[it[2]].hidden)

VisibleNames(c) == [k \in 1..Len(VisibleItems(c)) |-> VisibleItems(c)[k][1]]

VisibleLeaves(c) ==
  LET its == SelectSeq(VisibleItems(c), LAMBDA it : cmd[it[2]].kind # "Group")
  IN [k \in 1..Len(its) |-> its[k][2]]

VisibleGroups(c) ==
  LET its == SelectSeq(VisibleItems(c), LAMBDA it : cmd[it[2]].kind = "Group")
  IN [k \in 1..Len(its) |-> its[k][2]]

RECURSIVE RefSeq(_)
\* the reference order: the group, its visible leaves, then each visible
\* child group's own sequence
RefSeq(c) ==
  <<c>> \o VisibleLeaves(c)
  \o Concat([k \in 1..Len(VisibleGroups(c)) |-> RefSeq(VisibleGroups(c)[k])])

YieldedNodes == [k \in 1..Len(yielded) |-> yielded[k].command]

IsPrefix(a, b) == Len(a) <= Len(b) /\ SubSeq(b, 1, Len(a)) = a

IterExhausted == pc \in {"epilogue", "done"}

\* C3: the contexts the iterator yields are, in order, the reference sequence
\* (the group, its visible leaf children in declaration order, then each
\* visible child group's own full sequence); when the iteration is exhausted
\* the whole reference sequence was yielded, every node at most once and no
\* hidden command other than the root.
C3_FlattenOrder ==
  /\ IsPrefix(YieldedNodes, RefSeq(0))
  /\ IterExhausted => YieldedNodes = RefSeq(0)
  /\ \A j, k \in 1..Len(yielded) : YieldedNodes[j] = YieldedNodes[k] => j = k
  /\ \A k \in 1..Len(yielded) : YieldedNodes[k] # 0 => ~cmd[YieldedNodes[k]].hidden

\* a finished iteration that skipped the hidden group 4 with its visible leaf
\* 7, and yielded leaves before the nested groups 1 and 5
C3_Witness ==
  /\ pc = "done"
  /\ cmd[4].hidden /\ ~cmd[7].hidden
  /\ YieldedNodes = <<0, 2, 3, 1, 6, 5, 8>>

\* the node and the name under which command c is registered
ParentItem(c) ==
  CHOOSE pk \in {<<m, k>> \in Nodes \X (1..4) :
                   k <= Len(cmd[m].commands) /\ cmd[m].commands[k][2] = c} : TRUE

RECURSIVE KeyPath(_)
\* the names, joined by spaces, under which c and its ancestors are
\* registered in their parents: the key the bash scan builds
KeyPath(c) ==
  IF c = 0 THEN root_name
  ELSE LET pk == ParentItem(c)
       IN KeyPath(pk[1]) \o <<" ">> \o cmd[pk[1]].commands[pk[2]][1]

\* C4: every yielded context's path is the space-joined registered names of
\* its ancestors and itself, and no two yielded contexts share a path.
C4_PathIsRegisteredNames ==
  /\ \A k \in 1..Len(yielded) : yielded[k].command_path = KeyPath(yielded[k].command)
  /\ \A j, k \in 1..Len(yielded) :
       yielded[j].command_path = yielded[k].command_path => j = k

GroupContexts == {yielded[k] : k \in {j \in 1..Len(yielded) : cmd[yielded[j].command].kind = "Group"}}

\* C1: every artifact emitted for a group names exactly its visible children:
\* the bash subcommand table entry, the zsh description list and the zsh
\* dispatch branches.
C1_HiddenChildrenNotNamed ==
  \A g \in GroupContexts :
    /\ \A k \in 1..Len(bash_out) :
         (bash_out[k].table = "subcmds" /\ bash_out[k].key = g.command_path)
           => Split(bash_out[k].value) = VisibleNames(g.command)
    /\ \A k \in 1..Len(zsh_out) :
         zsh_out[k].path = g.command_path =>
           /\ zsh_out[k].kind = "describe" => zsh_out[k].subcmds = VisibleNames(g.command)
           /\ zsh_out[k].kind = "cmd" =>
                [b \in 1..Len(zsh_out[k].branches) |-> zsh_out[k].branches[b].pattern]
                  = VisibleNames(g.command)

\* C2: with a named root, generation never ends in an error.
C2_NamedRootRenders == root_name # <<>> => error = ""

HasExcludeAll(s) ==
  /\ s.excludes # <<>>
  /\ <<"-">> \in Range(Split(SubSeq(s.excludes, 2, Len(s.excludes) - 1)))

GroupFunctions ==
  {zsh_out[k] : k \in {j \in 1..Len(zsh_out) :
      zsh_out[j].kind = "cmd" /\ \E g \in GroupContexts : g.command_path = zsh_out[j].path}}

\* C7 as stated: every spec of a group's _arguments call, its option specs
\* included, carries the "-" exclusion.
C7_EverySpecExcludesAll ==
  \A f \in GroupFunctions : \A k \in 1..Len(f.specs) : HasExcludeAll(f.specs[k])

\* the flag spelling without the "*", "+" and "=" decorations
BareFlag(fl) ==
  LET a == IF fl # <<>> /\ fl[1] = "*" THEN Tail(fl) ELSE fl
  IN IF a # <<>> /\ a[Len(a)] \in {"+", "="} THEN SubSeq(a, 1, Len(a) - 1) ELSE a

\* the option's first spelling is emitted undecorated and is an eager-exit flag
FirstSpellingEager(o) ==
  /\ opt_strs(o)[1] \in {f_h, f_help}
  /\ ~(o.count \/ o.multiple)
  /\ compute_nargs(o) # 1

OptionsOfPath(path) ==
  LET g == CHOOSE x \in GroupContexts : x.command_path = path
      os == SelectSeq(cmd[g.command].params, LAMBDA p : p.ptype = "Option" /\ ~p.hidden)
  IN Range(os)

\* C7 amended: in every group's function the last two specs are the
\* subcommand-description spec and the catch-all spec and both carry the "-"
\* exclusion; an option spec carries it exactly when its option's first
\* spelling, as emitted, is an eager-exit flag.
C7_ExcludeAllWhereEmitted ==
  \A f \in GroupFunctions :
    /\ Len(f.specs) >= 2
    /\ f.specs[Len(f.specs) - 1].kind = "subcmds" /\ HasExcludeAll(f.specs[Len(f.specs) - 1])
    /\ f.specs[Len(f.specs)].kind = "rest" /\ HasExcludeAll(f.specs[Len(f.specs)])
    /\ \A k \in 1..(Len(f.specs) - 2) :
         /\ f.specs[k].kind = "option"
         /\ \E o \in OptionsOfPath(f.path) :
              /\ BareFlag(f.specs[k].flag) \in Range(opt_strs(o))
              /\ HasExcludeAll(f.specs[k]) <=> FirstSpellingEager(o)

\* a finished zsh script whose root function has an option spec with the
\* exclusion (the help flag) and option specs without it
C7_Witness ==
  /\ pc = "done" /\ shell = "zsh"
  /\ \E f \in GroupFunctions :
       /\ f.root_locals
       /\ \E k \in 1..Len(f.specs) : f.specs[k].kind = "option" /\ HasExcludeAll(f.specs[k])
       /\ \E k \in 1..Len(f.specs) : f.specs[k].kind = "option" /\ ~HasExcludeAll(f.specs[k])

(***************************************************************************)
(* The generated bash script at run time                                   *)
(***************************************************************************)
\* the words a command line is made of
Tokens == {dashdash, f_F, f_Fx, w_sub, w_grp, w_su, w_x, <<>>}

\* the command trees whose bash script is run
RunTrees == {Tree(H, al, nm, FALSE) : H \in SUBSET {2}, al \in BOOLEAN, nm \in BOOLEAN}

\* the associative array `table` after the script's assignments ran in order
Sourced(table) ==
  LET idx == {k \in 1..Len(bash_out) : bash_out[k].table = table}
      keys == {bash_out[k].key : k \in idx}
      last(key) == CHOOSE k \in idx :
                     /\ bash_out[k].key = key
                     /\ \A j \in idx : bash_out[j].key = key => j <= k
  IN [key \in keys |-> bash_out[last(key)].value]

\* ${table[key]}: the empty string for a key that was never assigned
Lookup(table, key) == IF key \in DOMAIN table THEN table[key] ELSE <<>>

\* the value of a decimal string in shell arithmetic
ToInt(s) == (CHOOSE d \in 1..10 : Digits[d] = s[1]) - 1

Word(k) == COMP_WORDS[k + 1]

boundary == Len(COMP_WORDS) - 2

\* sourcing the script: declare -A and the assignments
Source ==
  /\ pc = "done"
  /\ _get_completer_cls(shell) = "bash"
  /\ rpc = "unsourced"
  /\ tables' = [subcmds |-> Sourced("subcmds"), opts |-> Sourced("opts"),
                slamopts |-> Sourced("slamopts"), opt_nargs |-> Sourced("opt_nargs"),
                opt_choices |-> Sourced("opt_choices")]
  /\ rpc' = "idle"
  /\ UNCHANGED <<COMP_WORDS, COMP_CWORD, loc, COMPREPLY, hist>>
  /\ UNCHANGED genvars

\* the shell calls the completion function; parse_line sets its locals
Complete ==
  /\ rpc = "idle"
  /\ \E n \in 1..(MaxWords - 1) : \E ws \in [1..n -> Tokens] : \E c \in 1..n :
       /\ COMP_WORDS' = <<root_name>> \o ws
       /\ COMP_CWORD' = c
  /\ loc' = [i |-> 0, toskip |-> 0, curopt |-> <<>>, nomoreopts |-> 0,
             curcmd |-> root_name]
  /\ COMPREPLY' = <<>>
  /\ rpc' = "scan"
  /\ UNCHANGED <<tables, hist>>
  /\ UNCHANGED genvars

Scanning == rpc = "scan" /\ loc.i < boundary

\* the word the loop body examines: i is incremented first
curword == Word(loc.i + 1)

Examined == [hist EXCEPT !.scanned = @ \cup {loc.i + 1}]

IsSlammed(w) ==
  \E opt \in Range(Split(Lookup(tables.slamopts, loc.curcmd))) :
    w # opt /\ StartsWith(w, opt)

LooksLikeOption(w) == loc.nomoreopts = 0 /\ StartsWith(w, <<"-">>)

\* curword = "--"
ScanDashDash ==
  /\ Scanning
  /\ curword = dashdash
  /\ loc' = [loc EXCEPT !.i = @ + 1, !.curopt = <<>>, !.nomoreopts = 1]
  /\ hist' = [Examined EXCEPT !.dashes = @ \cup {loc.i + 1}]
  /\ UNCHANGED <<tables, rpc, COMP_WORDS, COMP_CWORD, COMPREPLY>>
  /\ UNCHANGED genvars

\* toskip > 0: the word is an argument of the current option
ScanSkip ==
  /\ Scanning
  /\ curword # dashdash
  /\ loc.toskip > 0
  /\ loc' = [loc EXCEPT !.i = @ + 1, !.toskip = @ - 1]
  /\ hist' = [Examined EXCEPT !.skipped = @ \cup {loc.i + 1}]
  /\ UNCHANGED <<tables, rpc, COMP_WORDS, COMP_CWORD, COMPREPLY>>
  /\ UNCHANGED genvars

\* a slammed option such as -Ftext: continue 2
ScanSlammed ==
  /\ Scanning
  /\ curword # dashdash
  /\ loc.toskip = 0
  /\ LooksLikeOption(curword)
  /\ IsSlammed(curword)
  /\ loc' = [loc EXCEPT !.i = @ + 1]
  /\ hist' = Examined
  /\ UNCHANGED <<tables, rpc, COMP_WORDS, COMP_CWORD, COMPREPLY>>
  /\ UNCHANGED genvars

\* an option: record it and look up how many arguments it takes
ScanOption ==
  /\ Scanning
  /\ curword # dashdash
  /\ loc.toskip = 0
  /\ LooksLikeOption(curword)
  /\ ~IsSlammed(curword)
  /\ LET nargs == Lookup(tables.opt_nargs, loc.curcmd \o <<" ">> \o curword)
     IN loc' = [loc EXCEPT !.i = @ + 1, !.curopt = curword,
                           !.toskip = IF nargs # <<>> THEN ToInt(nargs) ELSE 0]
  /\ hist' = [Examined EXCEPT !.recorded = @ \cup {loc.i + 1}]
  /\ UNCHANGED <<tables, rpc, COMP_WORDS, COMP_CWORD, COMPREPLY>>
  /\ UNCHANGED genvars

IsSubcmd(w) == w \in Range(Split(Lookup(tables.subcmds, loc.curcmd)))

\* a subcommand of curcmd: descend
ScanSubcmd ==
  /\ Scanning
  /\ curword # dashdash
  /\ loc.toskip = 0
  /\ ~LooksLikeOption(curword)
  /\ IsSubcmd(curword)
  /\ loc' = [loc EXCEPT !.i = @ + 1, !.curcmd = @ \o <<" ">> \o curword]
  /\ hist' = Examined
  /\ UNCHANGED <<tables, rpc, COMP_WORDS, COMP_CWORD, COMPREPLY>>
  /\ UNCHANGED genvars

\* the command structure is unrecognized: break
ScanBreak ==
  /\ Scanning
  /\ curword # dashdash
  /\ loc.toskip = 0
  /\ ~LooksLikeOption(curword)
  /\ ~IsSubcmd(curword)
  /\ loc' = [loc EXCEPT !.i = @ + 1]
  /\ hist' = [Examined EXCEPT !.broke = TRUE, !.loopcmd = loc.curcmd]
  /\ rpc' = "post"
  /\ UNCHANGED <<tables, COMP_WORDS, COMP_CWORD, COMPREPLY>>
  /\ UNCHANGED genvars

\* the loop condition fails
LoopExit ==
  /\ rpc = "scan"
  /\ ~(loc.i < boundary)
  /\ rpc' = "post"
  /\ hist' = [hist EXCEPT !.loopcmd = loc.curcmd]
  /\ UNCHANGED <<tables, COMP_WORDS, COMP_CWORD, loc, COMPREPLY>>
  /\ UNCHANGED genvars

\* after the loop: clear curopt when nothing is pending, and descend into the
\* cursor word when it is a subcommand of curcmd; the three values are echoed
PostLoop ==
  /\ rpc = "post"
  /\ LET compword == Word(COMP_CWORD)
     IN loc' = IF loc.toskip = 0
               THEN IF IsSubcmd(compword)
                    THEN [loc EXCEPT !.curopt = <<>>,
                                     !.curcmd = @ \o <<" ">> \o compword]
                    ELSE [loc EXCEPT !.curopt = <<>>]
               ELSE loc
  /\ rpc' = "reply"
  /\ UNCHANGED <<tables, COMP_WORDS, COMP_CWORD, COMPREPLY, hist>>
  /\ UNCHANGED genvars

\* _add_match_to_compreply
_add_match_to_compreply(value) ==
  SelectSeq(Split(value), LAMBDA choice : StartsWith(choice, Word(COMP_CWORD)))

\* _add_match_for_cmdopt
_add_match_for_cmdopt(key) ==
  LET choices == Lookup(tables.opt_choices, key)
  IN IF choices # <<>> THEN _add_match_to_compreply(choices) ELSE <<>>

\* the case analysis of the completion function on the cursor word
Reply ==
  /\ rpc = "reply"
  /\ LET w == Word(COMP_CWORD)
         curcmd_w_curopt == loc.curcmd \o <<" ">> \o loc.curopt
     IN COMPREPLY' =
          IF StartsWith(w, <<"-">>)
          THEN _add_match_to_compreply(Lookup(tables.opts, loc.curcmd))
          ELSE IF w = <<>>
          THEN IF loc.toskip > 0
               THEN _add_match_for_cmdopt(curcmd_w_curopt)
               ELSE Split(Lookup(tables.subcmds, loc.curcmd))
          ELSE IF loc.curopt = <<>>
               THEN _add_match_to_compreply(Lookup(tables.subcmds, loc.curcmd))
               ELSE _add_match_for_cmdopt(curcmd_w_curopt)
  /\ rpc' = "done"
  /\ UNCHANGED <<tables, COMP_WORDS, COMP_CWORD, loc, hist>>
  /\ UNCHANGED genvars

NextRun ==
  \/ Source \/ Complete \/ ScanDashDash \/ ScanSkip \/ ScanSlammed \/ ScanOption
  \/ ScanSubcmd \/ ScanBreak \/ LoopExit \/ PostLoop \/ Reply

InitBash == InitWith(RunTrees)

NextBash == NextGen \/ NextRun

SpecBash == InitBash /\ [][NextBash]_vars

(***************************************************************************)
(* Properties of the generated bash script                                 *)
(***************************************************************************)
CursorIsLast == COMP_CWORD = Len(COMP_WORDS) - 1

\* C5: with no option argument pending and a cursor word w that is not empty
\* and does not begin with "-", the candidates are exactly the subcommand
\* names registered for the command path the words before the cursor lead to
\* that have w as a prefix (stated for a cursor on the last word, where the
\* loop scans exactly the words before the cursor).
C5_PartialWordOffersSiblings ==
  (/\ rpc = "done"
   /\ CursorIsLast
   /\ loc.toskip = 0
   /\ Word(COMP_CWORD) # <<>>
   /\ ~StartsWith(Word(COMP_CWORD), <<"-">>))
  => COMPREPLY = SelectSeq(Split(Lookup(tables.subcmds, hist.loopcmd)),
                           LAMBDA name : StartsWith(name, Word(COMP_CWORD)))

RECURSIVE ChainNode(_, _)
\* the command a chain of visible registered names leads to from c, or -1
ChainNode(c, names) ==
  IF names = <<>> THEN c
  ELSE LET its == SelectSeq(VisibleItems(c), LAMBDA it : it[1] = Head(names))
       IN IF c = -1 \/ its = <<>> THEN -1 ELSE ChainNode(its[1][2], Tail(names))

PathOf(c) == (CHOOSE k \in 1..Len(yielded) : yielded[k].command = c)

\* C6: on a line made of the root name, visible subcommand names leading to
\* command path P, a flag f of P that takes at least one argument, and an
\* empty cursor word, the parse gives curcmd = P, curopt = f and toskip = f's
\* arity, and the candidates are f's declared choices (none without choices).
C6_PendingOptionOffersChoices ==
  (/\ rpc = "done"
   /\ CursorIsLast
   /\ Len(COMP_WORDS) >= 3
   /\ Word(COMP_CWORD) = <<>>)
  => LET c == ChainNode(0, SubSeq(COMP_WORDS, 2, Len(COMP_WORDS) - 2))
         f == COMP_WORDS[Len(COMP_WORDS) - 1]
     IN c # -1 =>
          \A o \in Range(SelectSeq(cmd[c].params,
                                   LAMBDA p : p.ptype = "Option" /\ ~p.hidden)) :
            (f \in Range(opt_strs(o)) /\ compute_nargs(o) >= 1) =>
              /\ loc.curcmd = yielded[PathOf(c)].command_path
              /\ loc.curopt = f
              /\ loc.toskip = compute_nargs(o)
              /\ COMPREPLY = (IF o.has_choices THEN o.choices ELSE <<>>)

\* C8: once "--" was scanned no option awaits a value (curopt is empty and
\* toskip is 0; stated for a cursor on the last word), and no word scanned
\* after it is recorded as an option or consumed as an option argument.
C8_DashDashEndsOptions ==
  /\ (CursorIsLast /\ loc.nomoreopts = 1) => (loc.toskip = 0 /\ loc.curopt = <<>>)
  /\ \A d \in hist.dashes : \A k \in hist.skipped \cup hist.recorded : k < d

\* C9: the scan loop examines only words strictly between the command word
\* and the cursor word.
C9_ScanStopsBeforeCursor == hist.scanned \subseteq 1..(COMP_CWORD - 1)

\* C10: after the scan stopped at an unrecognized word the reported curcmd is
\* the command path matched up to that word (stated for a cursor on the last
\* word), and the reported curcmd is a key of the subcommand table.
C10_BreakKeepsDeepestCommand ==
  /\ (CursorIsLast /\ hist.broke) => loc.curcmd = hist.loopcmd
  /\ rpc = "done" => loc.curcmd \in DOMAIN tables.subcmds

====
